---- MODULE Spec2Model ----
(***************************************************************************)
(* A model of poll_netatmo.py: the token cache (get_access_token), the     *)
(* bounding box (calculate_bbox), the record flattener                     *)
(* (parse_station_data), the CSV history writer (save_to_csv) and the      *)
(* polling loop of __main__.                                               *)
(*                                                                         *)
(* Python dicts are functions with a set of strings as domain; ordered     *)
(* dicts that the code iterates (measures, res) are sequences of           *)
(* <<key, value>> pairs with distinct keys.  All cell values are strings.  *)
(* Time is whole epoch seconds, as int(time.time()) returns it.            *)
(***************************************************************************)
EXTENDS Integers, Sequences, FiniteSets, TLC

VARIABLES
    pc,               \* position of __main__: token, announce, fetch, save, sleep, stopped, crashed
    now,              \* the wall clock, epoch seconds
    tokenFile,        \* content of TOKEN_FILE
    token,            \* the variable token of __main__
    varIdx,           \* index into VARIABLES of the for loop
    cycle,            \* number of the running poll cycle
    all_parsed_data,  \* the list accumulated in one cycle
    csvFile,          \* content of the CSV file
    err,              \* the exception that left the program, or "none"
    stdout,           \* the messages printed so far
    exitStatus,       \* "running", "ok" or "error"
    authLog,          \* what the last get_access_token call read and did
    lastFetch,        \* the last station fetch issued
    interruptedAt,    \* the position at which a user interrupt arrived
    calls,            \* the row lists passed to save_to_csv so far
    stations,         \* argument of parse_station_data
    parsed,           \* result of parse_station_data
    bboxIn,           \* arguments of calculate_bbox
    bboxOut           \* result of calculate_bbox

vars == <<pc, now, tokenFile, token, varIdx, cycle, all_parsed_data, csvFile,
          err, stdout, exitStatus, authLog, lastFetch, interruptedAt, calls,
          stations, parsed, bboxIn, bboxOut>>

---------------------------------------------------------------------------
(* Bounds of the model *)

MaxDrift == 1       \* seconds the clock may advance inside one poll cycle
MaxCycles == 2      \* poll cycles explored
MaxCalls == 3       \* save_to_csv calls explored
MaxLen == 2         \* length of a module's type list and of a value list
MaxStations == 2    \* stations in one API response
MaxRadiusMm == 120  \* radii 1..MaxRadiusMm millimetres, besides BOX_RADIUS_M

(* Program constants *)

POLL_INTERVAL == 900
BOX_RADIUS_M == 100
VARIABLES_ == <<"temperature", "humidity", "pressure">>

---------------------------------------------------------------------------
(* Dict helpers *)

EmptyDict == <<>>
None == "None"

Get(d, k, default) == IF k \in DOMAIN d THEN d[k] ELSE default

Put(d, k, v) == [x \in (DOMAIN d) \cup {k} |-> IF x = k THEN v ELSE d[x]]

Min(a, b) == IF a < b THEN a ELSE b

---------------------------------------------------------------------------
(* datetime.fromtimestamp(t).isoformat(), for t within the first day *)

Pad2(n) == IF n < 10 THEN "0" \o ToString(n) ELSE ToString(n)

IsoFormat(t) ==
    "1970-01-01T" \o Pad2(t \div 3600) \o ":" \o Pad2((t \div 60) % 60)
        \o ":" \o Pad2(t % 60)

---------------------------------------------------------------------------
(* get_access_token *)

TokenValidAtBoundary(token_data, t) ==
    Get(token_data, "expire_in", 0) + Get(token_data, "obtained_at", 0) >= t

\* lines 39-40: expires_at > int(time.time())
TokenValid(token_data, t) ==
    Get(token_data, "expire_in", 0) + Get(token_data, "obtained_at", 0) > t

\* `if token_data:` is false for None and for an empty dict
Truthy(file) == file.state = "json" /\ DOMAIN file.data # {}

ExpireChoices == {1, POLL_INTERVAL, 12 * POLL_INTERVAL}

TokenRecord(tok, exp, at) ==
    [access_token |-> tok, expire_in |-> exp, obtained_at |-> at]

MissingFile == [state |-> "missing", data |-> EmptyDict]
CorruptFile == [state |-> "corrupt", data |-> EmptyDict]
JsonFile(d) == [state |-> "json", data |-> d]

\* outcome: "cached", "granted", "http_error" (of the token request) or "read_error"
NoAuth == [called |-> FALSE, read |-> MissingFile, at |-> 0, outcome |-> "none"]
AuthLog(file, t, outcome) ==
    [called |-> TRUE, read |-> file, at |-> t, outcome |-> outcome]

NoFetch == [n |-> 0, var |-> "", at |-> 0, token |-> "", ok |-> TRUE]

Crash(e) ==
    /\ pc' = "crashed"
    /\ err' = e
    /\ exitStatus' = "error"

\* lines 31-60, called at line 156
GetAccessToken ==
    /\ pc = "token"
    /\ IF tokenFile.state = "corrupt"
       THEN \* json.load raises JSONDecodeError, which line 35 does not catch
            /\ Crash("JSONDecodeError")
            /\ authLog' = AuthLog(tokenFile, now, "read_error")
            /\ UNCHANGED <<tokenFile, token>>
       ELSE IF Truthy(tokenFile) /\ TokenValid(tokenFile.data, now)
       THEN /\ token' = tokenFile.data["access_token"]
            /\ pc' = "announce"
            /\ authLog' = AuthLog(tokenFile, now, "cached")
            /\ UNCHANGED <<tokenFile, err, exitStatus>>
       ELSE \/ \* line 53: resp.raise_for_status() raises
               /\ Crash("HTTPError")
               /\ authLog' = AuthLog(tokenFile, now, "http_error")
               /\ UNCHANGED <<tokenFile, token>>
            \/ \E exp \in ExpireChoices :
               /\ tokenFile' = JsonFile(TokenRecord("tok_new", exp, now))
               /\ token' = "tok_new"
               /\ pc' = "announce"
               /\ authLog' = AuthLog(tokenFile, now, "granted")
               /\ UNCHANGED <<err, exitStatus>>
    /\ UNCHANGED <<now, varIdx, cycle, all_parsed_data, csvFile, stdout,
                   lastFetch, interruptedAt, calls, stations, parsed,
                   bboxIn, bboxOut>>

---------------------------------------------------------------------------
(* parse_station_data *)

LatitudeSwapped(loc) == IF Len(loc) > 0 THEN loc[1] ELSE None

\* line 116: loc[1] if loc else None (Python index 1 is the second element)
Latitude(loc) == IF Len(loc) > 0 THEN loc[2] ELSE None

\* line 117: loc[0] if loc else None
Longitude(loc) == IF Len(loc) > 0 THEN loc[1] ELSE None

\* lines 111-121: the metadata of a row
BaseRow(st, module_id, ts, timestamp_poll) ==
    LET place == Get(st, "place", EmptyDict)
        loc == Get(place, "location", <<>>)
    IN  [poll_time |-> IsoFormat(timestamp_poll),
         station_id |-> Get(st, "_id", None),
         module_id |-> module_id,
         timestamp |-> ts,
         latitude |-> Latitude(loc),
         longitude |-> Longitude(loc),
         city |-> Get(place, "city", ""),
         country |-> Get(place, "country", ""),
         altitude |-> Get(place, "altitude", None)]

\* lines 122-123: for t, v in zip(types, values): row[t] = v
RECURSIVE ZipInto(_, _, _, _)
ZipInto(row, types, values, i) ==
    IF i > Min(Len(types), Len(values))
    THEN row
    ELSE ZipInto(Put(row, types[i], values[i]), types, values, i + 1)

\* lines 109-124: the rows of one module, one per item of res
ModuleRows(st, module, timestamp_poll) ==
    LET module_id == module[1]
        module_data == module[2]
        types == Get(module_data, "type", <<>>)
        res == Get(module_data, "res", <<>>)
    IN  [j \in 1..Len(res) |->
            ZipInto(BaseRow(st, module_id, res[j][1], timestamp_poll),
                    types, res[j][2], 1)]

\* lines 108-124: the rows of the modules i.. of a station
RECURSIVE MeasuresRows(_, _, _, _)
MeasuresRows(st, measures, i, timestamp_poll) ==
    IF i > Len(measures)
    THEN <<>>
    ELSE ModuleRows(st, measures[i], timestamp_poll)
            \o MeasuresRows(st, measures, i + 1, timestamp_poll)

\* lines 100-124: the rows of the stations i..
RECURSIVE StationsRows(_, _, _)
StationsRows(sts, i, timestamp_poll) ==
    IF i > Len(sts)
    THEN <<>>
    ELSE MeasuresRows(sts[i], Get(sts[i], "measures", <<>>), 1, timestamp_poll)
            \o StationsRows(sts, i + 1, timestamp_poll)

\* parse_station_data(stations), called when the clock shows t
parse_station_data(sts, t) == StationsRows(sts, 1, t)

---------------------------------------------------------------------------
(* save_to_csv *)

\* sorted() of the column names the program can produce
ColumnOrder ==
    <<"altitude", "city", "country", "humidity", "latitude", "longitude",
      "module_id", "poll_time", "pressure", "station_id", "temperature",
      "timestamp">>

\* lines 134-136: the union of the rows' keys
KeyUnion(data) == UNION {DOMAIN data[i] : i \in 1..Len(data)}

\* line 137: sorted(keys)
Sorted(keys) == SelectSeq(ColumnOrder, LAMBDA k : k \in keys)

NeverNoData(data) == FALSE

\* line 131: if not data
NoData(data) == Len(data) = 0

AlwaysWriteHeader(file) == TRUE

\* lines 139-143, 147: the header is written when the file did not exist
WritesHeader(file) == ~file.exists

NoCsv == [exists |-> FALSE, lines |-> <<>>]

HeaderLine(keys) == [kind |-> "header", cells |-> keys]

\* DictWriter.writerow: the row's value of each field, "" where it has none
RowLine(row, keys) ==
    [kind |-> "row", cells |-> [j \in 1..Len(keys) |-> Get(row, keys[j], "")]]

\* save_to_csv(data, filename): the file's content after the call
save_to_csv(data, file) ==
    IF NoData(data)
    THEN file
    ELSE LET keys == Sorted(KeyUnion(data))
             header == IF WritesHeader(file) THEN <<HeaderLine(keys)>> ELSE <<>>
             rows == [i \in 1..Len(data) |-> RowLine(data[i], keys)]
         IN  [exists |-> TRUE, lines |-> file.lines \o header \o rows]

\* what save_to_csv prints
SaveMessage(data) == IF NoData(data) THEN "No data to save." ELSE "Saved rows"

---------------------------------------------------------------------------
(* calculate_bbox.  Angles are integers in units of 1e-7 degree, radii in  *)
(* millimetres, a delta is the fraction <<numerator, denominator>> of      *)
(* 1e-7 degree, and the rounded corners are in units of 1e-6 degree.       *)

CENTER_LAT == 457740000
CENTER_LON == 48050000

\* math.cos(math.radians(center_lat)) in thousandths, for the latitudes explored
CosMilli(center_lat) ==
    CASE center_lat = 0 -> 1000
      [] center_lat \in {CENTER_LAT, CENTER_LAT + 3, -CENTER_LAT} -> 697
      [] center_lat \in {600000000, -600000000} -> 500
      [] center_lat \in {890000000, -890000000} -> 17

Latitudes ==
    {0, CENTER_LAT, CENTER_LAT + 3, -CENTER_LAT, 600000000, -600000000,
     890000000, -890000000}

Longitudes == {CENTER_LON, CENTER_LON + 3, -1200000000}

\* line 66: delta_lat = radius_m / 111000
DeltaLat(center_lat, radius_mm) == <<10 * radius_mm, 111>>

DeltaLonTimesCos(center_lat, radius_mm) ==
    <<10 * radius_mm * CosMilli(center_lat), 111000>>

\* line 67: delta_lon = radius_m / (111000 * math.cos(math.radians(center_lat)))
DeltaLon(center_lat, radius_mm) ==
    <<10000 * radius_mm, 111 * CosMilli(center_lat)>>

\* round(center + sign * delta, 6): to the nearest 1e-6 degree, ties to even
Round6(center, sign, delta) ==
    LET base == center \div 10
        d == 10 * delta[2]
        n == (center % 10) * delta[2] + sign * delta[1]
        q == n \div d
        r == n % d
    IN  base + q + (IF 2 * r > d THEN 1
                    ELSE IF 2 * r < d THEN 0
                    ELSE IF (base + q) % 2 = 0 THEN 0 ELSE 1)

\* lines 65-73
calculate_bbox(center_lat, center_lon, radius_mm) ==
    LET delta_lat == DeltaLat(center_lat, radius_mm)
        delta_lon == DeltaLon(center_lat, radius_mm)
    IN  [lat_ne |-> Round6(center_lat, 1, delta_lat),
         lon_ne |-> Round6(center_lon, 1, delta_lon),
         lat_sw |-> Round6(center_lat, -1, delta_lat),
         lon_sw |-> Round6(center_lon, -1, delta_lon)]

NoBbox == [called |-> FALSE, lat_ne |-> 0, lon_ne |-> 0, lat_sw |-> 0, lon_sw |-> 0]

---------------------------------------------------------------------------
(* The program: __main__ *)

RaisesNever(ok) == FALSE

\* line 91: resp.raise_for_status() raises on a non-success status
RaisesForStatus(ok) == ~ok

CaughtNowhere(p) == FALSE

\* lines 159-174: the positions inside the try block
Caught(p) == p \in {"fetch", "save", "sleep"}

Running == {"token", "announce", "fetch", "save", "sleep"}

\* a station as the API returns it for one required variable
StationFor(var) ==
    [_id |-> "70:ee:50:00:00:01",
     place |-> [location |-> <<"4.805", "45.774">>, city |-> "Lyon",
                country |-> "FR", altitude |-> "170"],
     measures |-> << <<"02:00:00:00:00:01",
                       [type |-> <<var>>,
                        res |-> << <<"1700000000", <<"21.5">> >> >>] >> >>]

\* the bodies the API may answer with
Responses(var) == {<<>>, <<StationFor(var)>>}

\* line 157
Announce ==
    /\ pc = "announce"
    /\ stdout' = stdout \cup {"Starting polling every 15 minutes..."}
    /\ pc' = "fetch"
    /\ varIdx' = 1
    /\ all_parsed_data' = <<>>
    /\ UNCHANGED <<now, tokenFile, token, cycle, csvFile, err, exitStatus,
                   authLog, lastFetch, interruptedAt, calls, stations, parsed,
                   bboxIn, bboxOut>>

\* lines 162-165: one iteration of the for loop
Fetch ==
    /\ pc = "fetch"
    /\ \E ok \in BOOLEAN, body \in Responses(VARIABLES_[varIdx]) :
        /\ lastFetch' = [n |-> lastFetch.n + 1, var |-> VARIABLES_[varIdx],
                         at |-> now, token |-> token, ok |-> ok]
        /\ IF RaisesForStatus(ok)
           THEN /\ Crash("HTTPError")
                /\ UNCHANGED <<varIdx, all_parsed_data>>
           ELSE /\ all_parsed_data' =
                       all_parsed_data \o parse_station_data(body, now)
                /\ IF varIdx < Len(VARIABLES_)
                   THEN varIdx' = varIdx + 1 /\ pc' = "fetch"
                   ELSE varIdx' = varIdx /\ pc' = "save"
                /\ UNCHANGED <<err, exitStatus>>
    /\ UNCHANGED <<now, tokenFile, token, cycle, csvFile, stdout, authLog,
                   interruptedAt, calls, stations, parsed, bboxIn, bboxOut>>

\* lines 167-170
Save ==
    /\ pc = "save"
    /\ IF Len(all_parsed_data) > 0
       THEN /\ csvFile' = save_to_csv(all_parsed_data, csvFile)
            /\ stdout' = stdout \cup {SaveMessage(all_parsed_data)}
            /\ calls' = Append(calls, [data |-> all_parsed_data,
                                       before |-> csvFile])
       ELSE /\ stdout' = stdout \cup {"No stations found."}
            /\ UNCHANGED <<csvFile, calls>>
    /\ pc' = "sleep"
    /\ UNCHANGED <<now, tokenFile, token, varIdx, cycle, all_parsed_data, err,
                   exitStatus, authLog, lastFetch, interruptedAt, stations,
                   parsed, bboxIn, bboxOut>>

\* line 172, then lines 160-161 of the next cycle
Sleep ==
    /\ pc = "sleep"
    /\ cycle < MaxCycles
    /\ now' = now + POLL_INTERVAL
    /\ cycle' = cycle + 1
    /\ pc' = "fetch"
    /\ varIdx' = 1
    /\ all_parsed_data' = <<>>
    /\ UNCHANGED <<tokenFile, token, csvFile, err, stdout, exitStatus, authLog,
                   lastFetch, interruptedAt, calls, stations, parsed, bboxIn,
                   bboxOut>>

\* lines 174-175: a KeyboardInterrupt, handled only inside the try block
Interrupt ==
    /\ pc \in Running
    /\ interruptedAt' = pc
    /\ IF Caught(pc)
       THEN /\ pc' = "stopped"
            /\ stdout' = stdout \cup {"Polling stopped by user."}
            /\ exitStatus' = "ok"
            /\ UNCHANGED err
       ELSE /\ Crash("KeyboardInterrupt")
            /\ UNCHANGED stdout
    /\ UNCHANGED <<now, tokenFile, token, varIdx, cycle, all_parsed_data,
                   csvFile, authLog, lastFetch, calls, stations, parsed,
                   bboxIn, bboxOut>>

\* a second passes while the program runs
Tick ==
    /\ pc \in Running
    /\ now % POLL_INTERVAL < MaxDrift
    /\ now' = now + 1
    /\ UNCHANGED <<pc, tokenFile, token, varIdx, cycle, all_parsed_data,
                   csvFile, err, stdout, exitStatus, authLog, lastFetch,
                   interruptedAt, calls, stations, parsed, bboxIn, bboxOut>>

\* the token files found at process start
InitTokenFiles ==
    {MissingFile, CorruptFile, JsonFile(EmptyDict)}
        \cup {JsonFile(TokenRecord("tok_cached", exp, 0)) :
                exp \in ExpireChoices \cup {0}}

Init ==
    /\ pc = "token"
    /\ now \in 0..MaxDrift
    /\ tokenFile \in InitTokenFiles
    /\ token = ""
    /\ varIdx = 1
    /\ cycle = 1
    /\ all_parsed_data = <<>>
    /\ csvFile = NoCsv
    /\ err = "none"
    /\ stdout = {}
    /\ exitStatus = "running"
    /\ authLog = NoAuth
    /\ lastFetch = NoFetch
    /\ interruptedAt = "none"
    /\ calls = <<>>
    /\ stations = <<>>
    /\ parsed = <<>>
    /\ bboxIn = [center_lat |-> 0, center_lon |-> 0, radius_mm |-> 0]
    /\ bboxOut = NoBbox

Next ==
    \/ GetAccessToken
    \/ Announce
    \/ Fetch
    \/ Save
    \/ Sleep
    \/ Interrupt
    \/ Tick

Spec == Init /\ [][Next]_vars

---------------------------------------------------------------------------
(* Claims about the program, checked under Spec *)

StopMessage == "Polling stopped by user."

\* the token record the cache file holds for an access token
IsTokenRecord(file) ==
    /\ file.state = "json"
    /\ {"access_token", "expire_in", "obtained_at"} \subseteq DOMAIN file.data

\* C2: every station fetch of the poll loop is issued with a token whose
\* obtained_at + expire_in is greater than the time of the fetch.
C2_FetchTokenNotExpired ==
    lastFetch.n > 0 =>
        /\ IsTokenRecord(tokenFile)
        /\ tokenFile.data["access_token"] = lastFetch.token
        /\ tokenFile.data["obtained_at"] + tokenFile.data["expire_in"] > lastFetch.at

\* C3: get_access_token returns the cached token without a token request
\* if and only if a cached token record exists and the time of the call is
\* less than obtained_at + expire_in; otherwise (also at equality) a
\* password-grant request is made, and its result, stamped with the time of
\* the call, overwrites the cache file and is the token returned.
C3_CachedIffValid ==
    authLog.called =>
        LET rec == authLog.read
            valid ==
                /\ IsTokenRecord(rec)
                /\ authLog.at < rec.data["obtained_at"] + rec.data["expire_in"]
        IN  /\ (authLog.outcome = "cached") <=> valid
            /\ authLog.outcome = "cached" =>
                    tokenFile = rec /\ token = rec.data["access_token"]
            /\ (IsTokenRecord(rec) /\ ~valid) =>
                    authLog.outcome \in {"granted", "http_error"}
            /\ authLog.outcome = "granted" =>
                    /\ IsTokenRecord(tokenFile)
                    /\ tokenFile.data["obtained_at"] = authLog.at
                    /\ tokenFile.data["access_token"] = token
                    /\ tokenFile # rec
            /\ authLog.outcome = "http_error" => tokenFile = rec

\* a record read exactly at obtained_at + expire_in, and replaced
C3_Witness ==
    /\ authLog.called
    /\ IsTokenRecord(authLog.read)
    /\ authLog.at = authLog.read.data["obtained_at"] + authLog.read.data["expire_in"]
    /\ authLog.outcome = "granted"
    /\ token = "tok_new"

\* C4: a missing or corrupt token file is a cache miss: the call does not
\* fail on the read and goes on to the password-grant request.
C4_ReadErrorIsCacheMiss ==
    (authLog.called /\ authLog.read.state \in {"missing", "corrupt"}) =>
        /\ authLog.outcome \in {"granted", "http_error"}
        /\ err # "JSONDecodeError"

FetchFailed == lastFetch.n > 0 /\ ~lastFetch.ok

\* C5: once a station fetch got a non-success status the process has
\* terminated with the HTTP error, and nothing happens after it: no fetch,
\* no CSV write, no sleep, no message.
C5_FetchErrorTerminates ==
    /\ [](FetchFailed =>
            pc = "crashed" /\ err = "HTTPError" /\ exitStatus = "error")
    /\ [][FetchFailed =>
            UNCHANGED <<lastFetch, csvFile, now, cycle, stdout, pc>>]_vars

\* a fetch failed with rows of earlier variables accumulated and unwritten
C5_Witness ==
    /\ FetchFailed
    /\ Len(all_parsed_data) > 0
    /\ lastFetch.var # VARIABLES_[1]
    /\ pc = "crashed"
    /\ ~csvFile.exists

\* C6 as stated: an interrupt arriving at any point of the run ends the
\* program in STOPPED, with the stop message printed and no error.
C6_InterruptAnywhereStops ==
    interruptedAt # "none" =>
        /\ pc = "stopped"
        /\ StopMessage \in stdout
        /\ exitStatus = "ok"

\* C6 as amended: an interrupt arriving inside the poll loop (during a
\* fetch, the CSV write or the sleep) ends the program in STOPPED with the
\* stop message printed and no error; an interrupt arriving before the
\* loop (during the initial token acquisition or the start message) is not
\* caught: the program ends with KeyboardInterrupt and without the message.
C6_InterruptInLoopStops ==
    /\ interruptedAt \in {"fetch", "save", "sleep"} =>
            /\ pc = "stopped"
            /\ StopMessage \in stdout
            /\ exitStatus = "ok"
            /\ err = "none"
    /\ interruptedAt \in {"token", "announce"} =>
            /\ pc = "crashed"
            /\ err = "KeyboardInterrupt"
            /\ exitStatus = "error"
            /\ StopMessage \notin stdout

\* an interrupt during the sleep of the second cycle
C6_Witness ==
    /\ interruptedAt = "sleep"
    /\ cycle > 1
    /\ pc = "stopped"

\* C9: all rows accumulated in one poll cycle carry the same poll_time.
C9_OnePollTimePerCycle ==
    \A i, j \in 1..Len(all_parsed_data) :
        all_parsed_data[i]["poll_time"] = all_parsed_data[j]["poll_time"]

---------------------------------------------------------------------------
(* save_to_csv called with arbitrary row lists on one file path *)

Row1 == [station_id |-> "70:ee:50:00:00:01", temperature |-> "21.5"]
Row2 == [station_id |-> "70:ee:50:00:00:01", humidity |-> "55"]
Row3 == [station_id |-> "70:ee:50:00:00:02"]

Batches == {<<>>, <<Row1>>, <<Row2>>, <<Row1, Row2>>, <<Row3, Row1>>}

\* the file before the first call: absent, empty, or written earlier
InitCsvFiles ==
    {NoCsv,
     [exists |-> TRUE, lines |-> <<>>],
     save_to_csv(<<Row3>>, NoCsv)}

InitCsv ==
    /\ pc = "csv"
    /\ csvFile \in InitCsvFiles
    /\ calls = <<>>
    /\ stdout = {}
    /\ now = 0
    /\ tokenFile = MissingFile
    /\ token = ""
    /\ varIdx = 1
    /\ cycle = 1
    /\ all_parsed_data = <<>>
    /\ err = "none"
    /\ exitStatus = "running"
    /\ authLog = NoAuth
    /\ lastFetch = NoFetch
    /\ interruptedAt = "none"
    /\ stations = <<>>
    /\ parsed = <<>>
    /\ bboxIn = [center_lat |-> 0, center_lon |-> 0, radius_mm |-> 0]
    /\ bboxOut = NoBbox

\* one call save_to_csv(data, filename)
AppendRows ==
    /\ pc = "csv"
    /\ Len(calls) < MaxCalls
    /\ \E data \in Batches :
        /\ csvFile' = save_to_csv(data, csvFile)
        /\ stdout' = stdout \cup {SaveMessage(data)}
        /\ calls' = Append(calls, [data |-> data, before |-> csvFile])
    /\ UNCHANGED <<pc, now, tokenFile, token, varIdx, cycle, all_parsed_data,
                   err, exitStatus, authLog, lastFetch, interruptedAt,
                   stations, parsed, bboxIn, bboxOut>>

NextCsv == AppendRows

SpecCsv == InitCsv /\ [][NextCsv]_vars

\* the calls made with a non-empty row list
NonEmptyCalls == SelectSeq(calls, LAMBDA c : Len(c.data) > 0)

\* the path did not exist at the start and a non-empty list was written
FreshAndWritten ==
    /\ Len(calls) > 0
    /\ ~calls[1].before.exists
    /\ Len(NonEmptyCalls) > 0

\* number of data lines written by the non-empty calls before the k-th
RECURSIVE RowsBefore(_)
RowsBefore(k) ==
    IF k <= 1 THEN 0 ELSE RowsBefore(k - 1) + Len(NonEmptyCalls[k - 1].data)

\* the line is the row written under the columns cols
LineHasColumns(line, row, cols) ==
    /\ line.kind = "row"
    /\ Len(line.cells) = Len(cols)
    /\ \A j \in 1..Len(cols) :
            line.cells[j] = IF cols[j] \in DOMAIN row THEN row[cols[j]] ELSE ""

\* exactly one header line, the first, naming the first batch's sorted keys
OneHeaderFirst ==
    /\ csvFile.exists
    /\ Len(csvFile.lines) = 1 + RowsBefore(Len(NonEmptyCalls) + 1)
    /\ csvFile.lines[1] = HeaderLine(Sorted(KeyUnion(NonEmptyCalls[1].data)))
    /\ Cardinality({i \in 1..Len(csvFile.lines) :
                        csvFile.lines[i].kind = "header"}) = 1

\* C1 as stated: on a fresh path the file has exactly one header line, the
\* first, and the header and every data row of every batch are written
\* under the sorted key union of the first non-empty batch.
C1_FirstBatchColumns ==
    FreshAndWritten =>
        /\ OneHeaderFirst
        /\ \A k \in 1..Len(NonEmptyCalls) :
            \A i \in 1..Len(NonEmptyCalls[k].data) :
                LineHasColumns(csvFile.lines[1 + RowsBefore(k) + i],
                               NonEmptyCalls[k].data[i],
                               Sorted(KeyUnion(NonEmptyCalls[1].data)))

\* C1 as amended: on a fresh path the file has exactly one header line, the
\* first, naming the sorted key union of the first non-empty batch; the
\* data rows of each batch are written under the sorted key union of their
\* own batch.
C1_OneHeaderOwnColumns ==
    FreshAndWritten =>
        /\ OneHeaderFirst
        /\ \A k \in 1..Len(NonEmptyCalls) :
            \A i \in 1..Len(NonEmptyCalls[k].data) :
                LineHasColumns(csvFile.lines[1 + RowsBefore(k) + i],
                               NonEmptyCalls[k].data[i],
                               Sorted(KeyUnion(NonEmptyCalls[k].data)))

\* two non-empty batches with different key sets written to a fresh path
C1_Witness ==
    /\ FreshAndWritten
    /\ Len(NonEmptyCalls) >= 2
    /\ KeyUnion(NonEmptyCalls[1].data) # KeyUnion(NonEmptyCalls[2].data)

\* the file after the k-th call
FileAfter(k) == IF k < Len(calls) THEN calls[k + 1].before ELSE csvFile

\* C7: a call with an empty row list leaves the file as it was: the same
\* content if it existed, absent if it did not, and no header written.
C7_EmptyBatchNoChange ==
    \A k \in 1..Len(calls) :
        Len(calls[k].data) = 0 =>
            /\ FileAfter(k) = calls[k].before
            /\ FileAfter(k).exists = calls[k].before.exists
            /\ Len(FileAfter(k).lines) = Len(calls[k].before.lines)

\* an empty list passed while the file was absent and again once it had rows
C7_Witness ==
    \E k, m \in 1..Len(calls) :
        /\ Len(calls[k].data) = 0
        /\ ~calls[k].before.exists
        /\ Len(calls[m].data) = 0
        /\ calls[m].before.exists
        /\ Len(calls[m].before.lines) > 1

---------------------------------------------------------------------------
(* parse_station_data applied to API bodies of bounded shape *)

ValueOrder == <<"21.5", "55", "1013.2">>

Lengths == 0..Min(MaxLen, Len(VARIABLES_))

FullTypes == SubSeq(VARIABLES_, 1, Min(MaxLen, Len(VARIABLES_)))

TypeLists ==
    {SubSeq(VARIABLES_, 1, n) : n \in Lengths} \cup {<<"humidity", "temperature">>}

ValueLists == {SubSeq(ValueOrder, 1, n) : n \in Lengths}

ModuleDatas ==
    {[type |-> t, res |-> << <<"1700000000", v>> >>] :
        t \in TypeLists, v \in ValueLists}
    \cup {[type |-> FullTypes, res |-> <<>>]}
    \cup {[type |-> FullTypes,
           res |-> << <<"1700000000", v>>, <<"1700000600", w>> >>] :
            v \in ValueLists, w \in ValueLists}
    \cup {[res |-> << <<"1700000000", ValueOrder>> >>]}

SecondModule ==
    <<"02:00:00:00:00:02",
      [type |-> <<"pressure">>, res |-> << <<"1700000300", <<"1009.8">> >> >>]>>

MeasuresSet ==
    {<<>>}
    \cup {<< <<"02:00:00:00:00:01", d>> >> : d \in ModuleDatas}
    \cup {<< <<"02:00:00:00:00:01",
               [type |-> FullTypes, res |-> << <<"1700000000", v>> >>]>>,
             SecondModule >> : v \in ValueLists}

FullPlace ==
    [location |-> <<"4.805", "45.774">>, city |-> "Lyon", country |-> "FR",
     altitude |-> "170"]

StationSet ==
    {[_id |-> "70:ee:50:00:00:01", place |-> FullPlace, measures |-> m] :
        m \in MeasuresSet}
    \cup {[_id |-> "70:ee:50:00:00:02", measures |-> << SecondModule >>],
          [_id |-> "70:ee:50:00:00:03",
           place |-> [location |-> <<>>, city |-> "Lyon"],
           measures |-> << SecondModule >>],
          [_id |-> "70:ee:50:00:00:04", place |-> FullPlace]}

RECURSIVE StationLists(_)
StationLists(n) ==
    IF n = 0
    THEN {<<>>}
    ELSE StationLists(n - 1)
            \cup {Append(l, st) : l \in {x \in StationLists(n - 1) : Len(x) = n - 1},
                                  st \in StationSet}

InitParse ==
    /\ pc = "parse"
    /\ stations \in StationLists(MaxStations)
    /\ parsed = <<>>
    /\ now = 3725
    /\ csvFile = NoCsv
    /\ calls = <<>>
    /\ stdout = {}
    /\ tokenFile = MissingFile
    /\ token = ""
    /\ varIdx = 1
    /\ cycle = 1
    /\ all_parsed_data = <<>>
    /\ err = "none"
    /\ exitStatus = "running"
    /\ authLog = NoAuth
    /\ lastFetch = NoFetch
    /\ interruptedAt = "none"
    /\ bboxIn = [center_lat |-> 0, center_lon |-> 0, radius_mm |-> 0]
    /\ bboxOut = NoBbox

\* one call parse_station_data(stations)
Parse ==
    /\ pc = "parse"
    /\ parsed' = parse_station_data(stations, now)
    /\ pc' = "parsed"
    /\ UNCHANGED <<now, tokenFile, token, varIdx, cycle, all_parsed_data,
                   csvFile, err, stdout, exitStatus, authLog, lastFetch,
                   interruptedAt, calls, stations, bboxIn, bboxOut>>

NextParse == Parse

SpecParse == InitParse /\ [][NextParse]_vars

MetadataFields ==
    {"poll_time", "station_id", "module_id", "timestamp", "latitude",
     "longitude", "city", "country", "altitude"}

\* the input's measures, type lists and value lists
MeasuresOf(s) ==
    IF "measures" \in DOMAIN stations[s] THEN stations[s]["measures"] ELSE <<>>
ResOf(s, m) ==
    IF "res" \in DOMAIN MeasuresOf(s)[m][2] THEN MeasuresOf(s)[m][2]["res"] ELSE <<>>
TypesOf(s, m) ==
    IF "type" \in DOMAIN MeasuresOf(s)[m][2] THEN MeasuresOf(s)[m][2]["type"] ELSE <<>>
ValuesOf(s, m, j) == ResOf(s, m)[j][2]

\* the (station, module, timestamp key) triples of the input
Triples ==
    UNION {UNION {{<<s, m, j>> : j \in 1..Len(ResOf(s, m))} :
                    m \in 1..Len(MeasuresOf(s))} :
            s \in 1..Len(stations)}

\* the order in which the code walks the input
Before(a, b) ==
    \/ a[1] < b[1]
    \/ a[1] = b[1] /\ a[2] < b[2]
    \/ a[1] = b[1] /\ a[2] = b[2] /\ a[3] < b[3]

\* the place of a triple's row in the result
RowIndex(t) == 1 + Cardinality({u \in Triples : Before(u, t)})

PlaceField(s, k, default) ==
    IF "place" \in DOMAIN stations[s] /\ k \in DOMAIN stations[s]["place"]
    THEN stations[s]["place"][k]
    ELSE default

RowOfTriple(row, t) ==
    LET s == t[1]
        types == TypesOf(s, t[2])
        values == ValuesOf(s, t[2], t[3])
        n == IF Len(types) < Len(values) THEN Len(types) ELSE Len(values)
        loc == PlaceField(s, "location", <<>>)
    IN  /\ DOMAIN row = MetadataFields \cup {types[i] : i \in 1..n}
        /\ \A i \in 1..n : row[types[i]] = values[i]
        /\ row["poll_time"] = "1970-01-01T01:02:05"
        /\ row["station_id"] = stations[s]["_id"]
        /\ row["module_id"] = MeasuresOf(s)[t[2]][1]
        /\ row["timestamp"] = ResOf(s, t[2])[t[3]][1]
        /\ row["latitude"] = IF loc = <<>> THEN None ELSE loc[2]
        /\ row["longitude"] = IF loc = <<>> THEN None ELSE loc[1]
        /\ row["city"] = PlaceField(s, "city", "")
        /\ row["country"] = PlaceField(s, "country", "")
        /\ row["altitude"] = PlaceField(s, "altitude", None)

\* C8: parse_station_data yields exactly one row per (station, module,
\* timestamp key); the row's measured columns are types[i] -> values[i] for
\* i below min(len(types), len(values)) and nothing else, and its nine
\* metadata fields hold the station's metadata.
C8_OneRowPerTriple ==
    pc = "parsed" =>
        /\ Len(parsed) = Cardinality(Triples)
        /\ \A t \in Triples : RowOfTriple(parsed[RowIndex(t)], t)

\* two stations, one with more values than types and one with more types
\* than values
C8_Witness ==
    /\ pc = "parsed"
    /\ Len(parsed) >= 2
    /\ \E t, u \in Triples :
        /\ t[1] # u[1]
        /\ 0 < Len(TypesOf(t[1], t[2]))
        /\ Len(TypesOf(t[1], t[2])) < Len(ValuesOf(t[1], t[2], t[3]))
        /\ 0 < Len(ValuesOf(u[1], u[2], u[3]))
        /\ Len(ValuesOf(u[1], u[2], u[3])) < Len(TypesOf(u[1], u[2]))

---------------------------------------------------------------------------
(* calculate_bbox applied to centers and radii *)

Radii == (1..MaxRadiusMm) \cup {1000 * BOX_RADIUS_M}

InitBbox ==
    /\ pc = "bbox"
    /\ bboxIn \in [center_lat : Latitudes, center_lon : Longitudes,
                   radius_mm : Radii]
    /\ bboxOut = NoBbox
    /\ now = 0
    /\ stations = <<>>
    /\ parsed = <<>>
    /\ csvFile = NoCsv
    /\ calls = <<>>
    /\ stdout = {}
    /\ tokenFile = MissingFile
    /\ token = ""
    /\ varIdx = 1
    /\ cycle = 1
    /\ all_parsed_data = <<>>
    /\ err = "none"
    /\ exitStatus = "running"
    /\ authLog = NoAuth
    /\ lastFetch = NoFetch
    /\ interruptedAt = "none"

\* one call calculate_bbox(center_lat, center_lon, radius_m), as at line 79
CalculateBbox ==
    /\ pc = "bbox"
    /\ LET box == calculate_bbox(bboxIn.center_lat, bboxIn.center_lon,
                                 bboxIn.radius_mm)
       IN  bboxOut' = [called |-> TRUE, lat_ne |-> box.lat_ne,
                       lon_ne |-> box.lon_ne, lat_sw |-> box.lat_sw,
                       lon_sw |-> box.lon_sw]
    /\ pc' = "bbox_done"
    /\ UNCHANGED <<now, tokenFile, token, varIdx, cycle, all_parsed_data,
                   csvFile, err, stdout, exitStatus, authLog, lastFetch,
                   interruptedAt, calls, stations, parsed, bboxIn>>

NextBbox == CalculateBbox

SpecBbox == InitBbox /\ [][NextBbox]_vars

Abs(x) == IF x < 0 THEN -x ELSE x

\* twice the distance, in 1e-7 degree, between the center and the midpoint
\* of two opposite rounded corners (corners in 1e-6, centers in 1e-7 degree)
Skew(hi, lo, center) ==
    Abs(10 * ((hi - center \div 10) + (lo - center \div 10)) - 2 * (center % 10))

\* the rounded corners lie within 1e-6 degree of symmetric around the center
SymmetricWithinRounding ==
    /\ Skew(bboxOut.lat_ne, bboxOut.lat_sw, bboxIn.center_lat) <= 10
    /\ Skew(bboxOut.lon_ne, bboxOut.lon_sw, bboxIn.center_lon) <= 10

====
